---- MODULE Spec2Model ----
(***************************************************************************)
(* A model of the mediatype crate: the borrowed, mutable MediaType         *)
(* (src/media_type.rs) and the owned, immutable MediaTypeBuf               *)
(* (src/media_type_buf.rs), over the grammar validator, Name and Params    *)
(* they are built on.                                                      *)
(*                                                                         *)
(* A string is a sequence of one-character strings; offsets are the        *)
(* 0-based byte offsets of the code, Slice(s, a, b) being &s[a..b].        *)
(* Option<T> is a sequence of length 0 (None) or 1 (Some).                 *)
(***************************************************************************)
EXTENDS Integers, Sequences, FiniteSets, TLC

(***************************************************************************)
(* Characters                                                              *)
(***************************************************************************)
\* The printable ASCII characters, bytes 32 to 126 in order (byte 96, which
\* a TLA+ string cannot hold, is spelled out; no input contains it).
Ascii ==
    << " ", "!", "\"", "#", "$", "%", "&", "'", "(", ")", "*", "+", ",", "-",
       ".", "/", "0", "1", "2", "3", "4", "5", "6", "7", "8", "9", ":", ";",
       "<", "=", ">", "?", "@", "A", "B", "C", "D", "E", "F", "G", "H", "I",
       "J", "K", "L", "M", "N", "O", "P", "Q", "R", "S", "T", "U", "V", "W",
       "X", "Y", "Z", "[", "\\", "]", "^", "_", "grave", "a", "b", "c", "d", "e",
       "f", "g", "h", "i", "j", "k", "l", "m", "n", "o", "p", "q", "r", "s",
       "t", "u", "v", "w", "x", "y", "z", "{", "|", "}", "~" >>

ByteOf == [c \in {Ascii[i] : i \in 1..Len(Ascii)} |->
              31 + (CHOOSE i \in 1..Len(Ascii) : Ascii[i] = c)]

Byte(c) == ByteOf[c]

\* u8::to_ascii_lowercase: 'A'..'Z' move up by 32, every other byte stays.
ToAsciiLowercaseChar(c) ==
    IF Byte(c) >= 65 /\ Byte(c) <= 90 THEN Ascii[Byte(c) + 32 - 31] ELSE c

ToAsciiLowercase(s) == [i \in 1..Len(s) |-> ToAsciiLowercaseChar(s[i])]

Slice(s, a, b) == SubSeq(s, a + 1, b)

None == << >>
Some(x) == << x >>
IsSome(o) == Len(o) = 1

(***************************************************************************)
(* Name: identity over the ASCII-lowercased bytes                          *)
(***************************************************************************)
IsRestrictedChar(c) ==
    \/ Byte(c) >= 48 /\ Byte(c) <= 57
    \/ Byte(c) >= 65 /\ Byte(c) <= 90
    \/ Byte(c) >= 97 /\ Byte(c) <= 122
    \/ c \in {"!", "#", "$", "&", "-", "^", "_", ".", "+"}

\* Optional whitespace; the inputs of this model use the space only.
IsOws(c) == c \in {" "}

\* Lexicographic comparison of the folded bytes: -1, 0 or 1.
RECURSIVE NameCmpFrom(_, _, _)
ByteCmp(x, y) == IF x < y THEN -1 ELSE IF x > y THEN 1 ELSE 0

NameCmpFrom(a, b, i) ==
    IF i > Len(a) /\ i > Len(b) THEN 0
    ELSE IF i > Len(a) THEN -1
    ELSE IF i > Len(b) THEN 1
    ELSE IF ToAsciiLowercaseChar(a[i]) = ToAsciiLowercaseChar(b[i])
         THEN NameCmpFrom(a, b, i + 1)
         ELSE ByteCmp(Byte(ToAsciiLowercaseChar(a[i])), Byte(ToAsciiLowercaseChar(b[i])))

NameCmp(a, b) == NameCmpFrom(a, b, 1)

NameEq(a, b) == NameCmp(a, b) = 0

\* Option<Name> equality: None = None, Some(a) = Some(b) iff a = b as names.
OptNameEq(a, b) ==
    /\ Len(a) = Len(b)
    /\ (Len(a) = 1 => NameEq(a[1], b[1]))

(***************************************************************************)
(* Grammar validator: Indices::parse                                       *)
(***************************************************************************)
\* The end of the longest run of token characters starting at offset i.
RECURSIVE EndOfToken(_, _)
EndOfToken(s, i) ==
    IF i < Len(s) /\ IsRestrictedChar(s[i + 1]) THEN EndOfToken(s, i + 1) ELSE i

RECURSIVE SkipOws(_, _)
SkipOws(s, i) ==
    IF i < Len(s) /\ IsOws(s[i + 1]) THEN SkipOws(s, i + 1) ELSE i

\* The offset of the first c at or after i, or Len(s) when there is none.
RECURSIVE FindChar(_, _, _)
FindChar(s, c, i) ==
    IF i < Len(s) /\ s[i + 1] # c THEN FindChar(s, c, i + 1) ELSE i

\* The offset of the last '+' in s[a..j], or -1 when there is none.
RECURSIVE LastPlus(_, _, _)
LastPlus(s, a, j) ==
    IF j <= a THEN -1
    ELSE IF s[j] = "+" THEN j - 1
    ELSE LastPlus(s, a, j - 1)

ParseErr(kind) == [ok |-> FALSE, err |-> kind]

\* Stable insertion of a quad into a list already sorted by folded key.
RECURSIVE InsertQuad(_, _, _)
InsertQuad(s, sorted, q) ==
    IF sorted = << >> THEN << q >>
    ELSE IF NameCmp(Slice(s, q[1], q[2]),
                    Slice(s, Head(sorted)[1], Head(sorted)[2])) < 0
         THEN << q >> \o sorted
         ELSE << Head(sorted) >> \o InsertQuad(s, Tail(sorted), q)

RECURSIVE SortQuads(_, _)
SortQuads(s, quads) ==
    IF quads = << >> THEN << >>
    ELSE InsertQuad(s, SortQuads(s, SubSeq(quads, 1, Len(quads) - 1)),
                    quads[Len(quads)])

\* *( OWS ";" OWS parameter ) [ OWS ";" 1*WS ] OWS from offset off, one
\* operator per position of the scan; quads are the parameters read so far
\* and len is the end of the last significant byte.
RECURSIVE ParseParams(_, _, _, _)
RECURSIVE AfterOws(_, _, _, _)
RECURSIVE AfterSemicolon(_, _, _, _, _)
RECURSIVE ParseKey(_, _, _, _)
RECURSIVE QuotedValue(_, _, _, _, _)
RECURSIVE TokenValue(_, _, _, _, _)

ParamsDone(quads, len) == [ok |-> TRUE, params |-> quads, len |-> len]

\* A ';' with nothing at all after it ends the list as well.
AfterSemicolon_Bare(s, semi, k, quads, len) ==
    IF k = Len(s) THEN ParamsDone(quads, len)
    ELSE ParseKey(s, k, EndOfToken(s, k), quads)

\* k is where the whitespace after the ';' at semi ends.  A ';' that only
\* whitespace follows ends the list; a ';' that nothing follows is a
\* parameter without '='.
AfterSemicolon(s, semi, k, quads, len) ==
    IF k = Len(s) /\ k > semi + 1 THEN ParamsDone(quads, len)
    ELSE ParseKey(s, k, EndOfToken(s, k), quads)

\* semi is where the whitespace before the next ';' ends.
AfterOws(s, semi, quads, len) ==
    IF semi = Len(s) THEN ParamsDone(quads, len)
    ELSE IF s[semi + 1] # ";" THEN ParseErr("InvalidParams")
    ELSE AfterSemicolon(s, semi, SkipOws(s, semi + 1), quads, len)

\* The key is s[k..ke].
ParseKey(s, k, ke, quads) ==
    IF ke = Len(s) \/ s[ke + 1] # "=" THEN ParseErr("MissingEqual")
    ELSE IF ke = k THEN ParseErr("InvalidParamKey")
    ELSE IF ke + 1 < Len(s) /\ s[ke + 2] = "\""
         THEN QuotedValue(s, k, ke, FindChar(s, "\"", ke + 2), quads)
         ELSE TokenValue(s, k, ke, EndOfToken(s, ke + 1), quads)

\* q is the closing quote: the range recorded is the content between the
\* quotes.
QuotedValue(s, k, ke, q, quads) ==
    IF q = Len(s) THEN ParseErr("InvalidParamValue")
    ELSE ParseParams(s, q + 1, Append(quads, << k, ke, ke + 2, q >>), q + 1)

TokenValue(s, k, ke, ve, quads) ==
    IF ve = ke + 1 THEN ParseErr("InvalidParamValue")
    ELSE ParseParams(s, ve, Append(quads, << k, ke, ke + 1, ve >>), ve)

ParseParams(s, off, quads, len) == AfterOws(s, SkipOws(s, off), quads, len)

\* The table once the parameters are read: the quads sorted by folded key.
IndicesDone(s, slash, subEnd, suffix, rest) ==
    IF ~rest.ok THEN rest
    ELSE [ok |-> TRUE,
          indices |-> [ty     |-> << 0, slash >>,
                       subty  |-> << slash + 1, subEnd >>,
                       suffix |-> suffix,
                       params |-> SortQuads(s, rest.params)],
          len |-> rest.len]

\* The subtype segment is s[slash + 1..segEnd]; plus is its last '+' or -1.
\* The '+' separates a suffix when a suffix follows it.
AfterSubtype(s, slash, segEnd, plus) ==
    IF plus >= 0 /\ plus + 1 < segEnd
    THEN IF plus = slash + 1 THEN ParseErr("InvalidSubtypeName")
         ELSE IndicesDone(s, slash, plus, Some(<< plus + 1, segEnd >>),
                          ParseParams(s, segEnd, << >>, segEnd))
    ELSE IF segEnd = slash + 1 THEN ParseErr("InvalidSubtypeName")
         ELSE IndicesDone(s, slash, segEnd, None,
                          ParseParams(s, segEnd, << >>, segEnd))

AfterType(s, slash, segEnd) ==
    IF slash = Len(s) THEN ParseErr("MissingSlash")
    ELSE IF slash = 0 \/ EndOfToken(s, 0) # slash THEN ParseErr("InvalidTypeName")
    ELSE AfterSubtype(s, slash, segEnd, LastPlus(s, slash + 1, segEnd))

SegmentFrom(s, slash) ==
    AfterType(s, slash, IF slash = Len(s) THEN slash ELSE EndOfToken(s, slash + 1))

IndicesParse(s) == SegmentFrom(s, FindChar(s, "/", 0))

(***************************************************************************)
(* slice::binary_search_by_key and slice::sort_unstable_by_key             *)
(*                                                                         *)
(* When several elements match, the standard library returns any one of    *)
(* them, chosen deterministically by the implementation the build links:   *)
(* libstd names that implementation.  "halving" keeps a base and halves    *)
(* the size until one element is left; "midpoint" returns at the first     *)
(* probe that compares equal.                                              *)
(***************************************************************************)
StdVersions == {"halving", "midpoint"}

RECURSIVE HalvingLoop(_, _, _, _)
HalvingLoop(keys, key, base, size) ==
    IF size > 1
    THEN HalvingLoop(keys, key,
                     IF NameCmp(keys[base + (size \div 2) + 1], key) > 0 THEN base
                     ELSE base + (size \div 2),
                     size - (size \div 2))
    ELSE base

RECURSIVE MidpointLoop(_, _, _, _)
RECURSIVE MidpointProbe(_, _, _, _, _, _)
MidpointProbe(keys, key, left, right, mid, cmp) ==
    IF cmp < 0 THEN MidpointLoop(keys, key, mid + 1, right)
    ELSE IF cmp > 0 THEN MidpointLoop(keys, key, left, mid)
    ELSE Some(mid)

MidpointLoop(keys, key, left, right) ==
    IF left < right
    THEN MidpointProbe(keys, key, left, right, left + ((right - left) \div 2),
                       NameCmp(keys[left + ((right - left) \div 2) + 1], key))
    ELSE None

HalvingResult(keys, key, base) ==
    IF NameCmp(keys[base + 1], key) = 0 THEN Some(base) ELSE None

\* .binary_search_by_key(key, ..).ok(): Some(index) or None.
BinarySearchByKey(std, keys, key) ==
    IF std = "midpoint" THEN MidpointLoop(keys, key, 0, Len(keys))
    ELSE IF Len(keys) = 0 THEN None
    ELSE HalvingResult(keys, key, HalvingLoop(keys, key, 0, Len(keys)))

IsSortedByKey(params) ==
    \A i \in 1..Len(params) - 1 : NameCmp(params[i][1], params[i + 1][1]) <= 0

IndexPermutations(n) == {p \in [1..n -> 1..n] : \A i, j \in 1..n : p[i] = p[j] => i = j}

\* The sort left out: the list stays in push order.
SortUnstableByKey_Skipped(params) == {params}

\* The orders an unstable sort by key may leave the list in: every
\* permutation of it that is ascending by key.
SortUnstableByKey(params) ==
    {q \in {[i \in 1..Len(params) |-> params[p[i]]] : p \in IndexPermutations(Len(params))} :
        IsSortedByKey(q)}

(***************************************************************************)
(* MediaType                                                               *)
(***************************************************************************)
Keys(params) == [i \in 1..Len(params) |-> params[i][1]]

RemoveAt(seq, index) ==
    SubSeq(seq, 1, index) \o SubSeq(seq, index + 2, Len(seq))

New(ty, subty) ==
    [ty |-> ty, subty |-> subty, suffix |-> None, params |-> << >>]

\* param is None or Some(<<key, value>>).
FromParts(ty, subty, suffix, param) ==
    [ty |-> ty, subty |-> subty, suffix |-> suffix,
     params |-> IF IsSome(param) THEN << param[1] >> ELSE << >>]

\* The fields sliced out of s by the table r.indices.
Sliced(s, r) ==
    IF ~r.ok THEN r
    ELSE [ok |-> TRUE,
          val |-> [ty     |-> Slice(s, r.indices.ty[1], r.indices.ty[2]),
                   subty  |-> Slice(s, r.indices.subty[1], r.indices.subty[2]),
                   suffix |-> IF IsSome(r.indices.suffix)
                              THEN Some(Slice(s, r.indices.suffix[1][1],
                                              r.indices.suffix[1][2]))
                              ELSE None,
                   params |-> [i \in 1..Len(r.indices.params) |->
                                 << Slice(s, r.indices.params[i][1], r.indices.params[i][2]),
                                    Slice(s, r.indices.params[i][3], r.indices.params[i][4]) >>]]]

Parse(s) == Sliced(s, IndicesParse(s))

ValueAt(m, found) ==
    IF IsSome(found) THEN Some(m.params[found[1] + 1][2]) ELSE None

GetParam(std, m, key) == ValueAt(m, BinarySearchByKey(std, Keys(m.params), key))

\* set_param storing the pair over the last entry instead of pushing it.
SetParamAt_Overwriting(m, key, value, found) ==
    IF IsSome(found)
    THEN {[m   |-> [m EXCEPT !.params[found[1] + 1][2] = value],
           ret |-> Some(m.params[found[1] + 1][2])]}
    ELSE {[m |-> [m EXCEPT !.params = sorted], ret |-> None] :
             sorted \in SortUnstableByKey(
                 IF m.params = << >> THEN << << key, value >> >>
                 ELSE [m.params EXCEPT ![Len(m.params)] = << key, value >>])}

\* set_param replacing the whole matching entry, key text included.
SetParamAt_ReplacingKey(m, key, value, found) ==
    IF IsSome(found)
    THEN {[m   |-> [m EXCEPT !.params[found[1] + 1] = << key, value >>],
           ret |-> Some(m.params[found[1] + 1][2])]}
    ELSE {[m |-> [m EXCEPT !.params = sorted], ret |-> None] :
             sorted \in SortUnstableByKey(Append(m.params, << key, value >>))}

\* The outcomes of set_param once the search has returned found: the media
\* type afterwards and the value returned.
SetParamAt(m, key, value, found) ==
    IF IsSome(found)
    THEN {[m   |-> [m EXCEPT !.params[found[1] + 1][2] = value],
           ret |-> Some(m.params[found[1] + 1][2])]}
    ELSE {[m |-> [m EXCEPT !.params = sorted], ret |-> None] :
             sorted \in SortUnstableByKey(Append(m.params, << key, value >>))}

SetParam(std, m, key, value) ==
    SetParamAt(m, key, value, BinarySearchByKey(std, Keys(m.params), key))

\* remove_param returning the value and leaving the entry in the list.
RemoveParamAt_Keeping(m, found) ==
    IF IsSome(found)
    THEN [m |-> m, ret |-> Some(m.params[found[1] + 1][2])]
    ELSE [m |-> m, ret |-> None]

RemoveParamAt(m, found) ==
    IF IsSome(found)
    THEN [m   |-> [m EXCEPT !.params = RemoveAt(m.params, found[1])],
          ret |-> Some(m.params[found[1] + 1][2])]
    ELSE [m |-> m, ret |-> None]

RemoveParam(std, m, key) ==
    RemoveParamAt(m, BinarySearchByKey(std, Keys(m.params), key))

RECURSIVE WriteParams(_)
WriteParams(ps) ==
    IF ps = << >> THEN << >>
    ELSE << ";", " " >> \o Head(ps)[1] \o << "=" >> \o Head(ps)[2]
         \o WriteParams(Tail(ps))

\* impl Display for MediaType
Display(m) ==
    m.ty \o << "/" >> \o m.subty
    \o (IF IsSome(m.suffix) THEN << "+" >> \o m.suffix[1] ELSE << >>)
    \o WriteParams(m.params)

\* The values compared as written instead of as names.
ParamsNameEq_ValueText(ps, qs) ==
    /\ Len(ps) = Len(qs)
    /\ \A i \in 1..Len(ps) : NameEq(ps[i][1], qs[i][1]) /\ ps[i][2] = qs[i][2]

\* Iterator::eq over params_name(): pairwise (Name, Name) equality.
ParamsNameEq(ps, qs) ==
    /\ Len(ps) = Len(qs)
    /\ \A i \in 1..Len(ps) : NameEq(ps[i][1], qs[i][1]) /\ NameEq(ps[i][2], qs[i][2])

MediaTypeEq(a, b) ==
    /\ NameEq(a.ty, b.ty)
    /\ NameEq(a.subty, b.subty)
    /\ OptNameEq(a.suffix, b.suffix)
    /\ ParamsNameEq(a.params, b.params)

(***************************************************************************)
(* MediaTypeBuf                                                            *)
(***************************************************************************)
\* s truncated to the significant length, with the table r.indices.
Truncated(s, r) ==
    IF ~r.ok THEN r
    ELSE [ok |-> TRUE, val |-> [data |-> Slice(s, 0, r.len), indices |-> r.indices]]

FromString(s) == Truncated(s, IndicesParse(s))

\* &s[..len] copied, with the table r.indices.
Copied(s, r) ==
    IF ~r.ok THEN r
    ELSE [ok |-> TRUE, val |-> [data |-> Slice(s, 0, r.len), indices |-> r.indices]]

FromStr(s) == Copied(s, IndicesParse(s))

BufTy(b) == Slice(b.data, b.indices.ty[1], b.indices.ty[2])

BufSubty(b) == Slice(b.data, b.indices.subty[1], b.indices.subty[2])

BufSuffix(b) ==
    IF IsSome(b.indices.suffix)
    THEN Some(Slice(b.data, b.indices.suffix[1][1], b.indices.suffix[1][2]))
    ELSE None

\* data.split(';').next().unwrap(): the text before the first ';'.
Essence(b) == Slice(b.data, 0, FindChar(b.data, ";", 0))

\* Params::from_indices: the quads sliced against the buffer, in table order.
BufParams(b) ==
    [i \in 1..Len(b.indices.params) |->
        << Slice(b.data, b.indices.params[i][1], b.indices.params[i][2]),
           Slice(b.data, b.indices.params[i][3], b.indices.params[i][4]) >>]

\* get_param slicing the key range of the entry found instead of its value.
BufValueAt_KeyRange(b, found) ==
    IF IsSome(found)
    THEN Some(Slice(b.data, b.indices.params[found[1] + 1][1],
                    b.indices.params[found[1] + 1][2]))
    ELSE None

BufValueAt(b, found) ==
    IF IsSome(found)
    THEN Some(Slice(b.data, b.indices.params[found[1] + 1][3],
                    b.indices.params[found[1] + 1][4]))
    ELSE None

BufGetParam(std, b, key) ==
    BufValueAt(b, BinarySearchByKey(std, Keys(BufParams(b)), key))

RECURSIVE WriteCanonicalParams(_)
WriteCanonicalParams(ps) ==
    IF ps = << >> THEN << >>
    ELSE << ";", " " >> \o ToAsciiLowercase(Head(ps)[1]) \o << "=" >> \o Head(ps)[2]
         \o WriteCanonicalParams(Tail(ps))

\* The string canonicalize builds before it parses it again.
CanonicalString(b) ==
    ToAsciiLowercase(BufTy(b)) \o << "/" >> \o ToAsciiLowercase(BufSubty(b))
    \o (IF IsSome(BufSuffix(b)) THEN << "+" >> \o ToAsciiLowercase(BufSuffix(b)[1])
        ELSE << >>)
    \o WriteCanonicalParams(BufParams(b))

\* The result handed to unwrap(): an error here is a panic.
Canonicalize(b) == FromString(CanonicalString(b))

\* impl Display for MediaTypeBuf
BufDisplay(b) ==
    BufTy(b) \o << "/" >> \o BufSubty(b)
    \o (IF IsSome(BufSuffix(b)) THEN << "+" >> \o BufSuffix(b)[1] ELSE << >>)
    \o WriteParams(BufParams(b))

MediaTypeBufEq(a, b) ==
    /\ NameEq(BufTy(a), BufTy(b))
    /\ NameEq(BufSubty(a), BufSubty(b))
    /\ OptNameEq(BufSuffix(a), BufSuffix(b))
    /\ ParamsNameEq(BufParams(a), BufParams(b))

\* impl PartialEq<MediaType> for MediaTypeBuf
BufEqMediaType(b, m) ==
    /\ NameEq(BufTy(b), m.ty)
    /\ NameEq(BufSubty(b), m.subty)
    /\ OptNameEq(BufSuffix(b), m.suffix)
    /\ ParamsNameEq(BufParams(b), m.params)

\* impl From<MediaType> for MediaTypeBuf: the result handed to unwrap().
From(m) == FromStr(Display(m))

(***************************************************************************)
(* Inputs                                                                  *)
(***************************************************************************)
\* The most parameters a parsed input carries.
MaxParams == 2
\* The most parameters set_param grows a list to.
MaxLen == 3

TyNames == {<< "t" >>, << "T" >>}
SubtyNames == {<< "s" >>, << "S" >>}
SuffixNames == {<< "x" >>}
ParamKeys == {<< "a" >>, << "b" >>, << "B" >>}
ParamValues == {<< "v" >>, << "V" >>}

SeqsUpTo(S, n) == UNION {[1..k -> S] : k \in 0..n}

Spaces(n) == [i \in 1..n |-> " "]

\* A written parameter: OWS, ';', OWS, key, '=', value or quoted value.
RenderParam(p) ==
    Spaces(p.before) \o << ";" >> \o Spaces(p.after) \o p.key \o << "=" >>
    \o (IF p.quoted THEN << "\"" >> \o p.value \o << "\"" >> ELSE p.value)

RECURSIVE RenderParams(_)
RenderParams(ps) ==
    IF ps = << >> THEN << >> ELSE RenderParam(Head(ps)) \o RenderParams(Tail(ps))

Render(parts) ==
    parts.ty \o << "/" >> \o parts.subty
    \o (IF IsSome(parts.suffix) THEN << "+" >> \o parts.suffix[1] ELSE << >>)
    \o RenderParams(parts.params) \o parts.trailer

PlainParams ==
    [before : {0}, after : {1}, key : ParamKeys, value : ParamValues, quoted : {FALSE}]

\* The strings the mutable MediaType is parsed from: any keys in any order,
\* repeated keys included.
PlainInputs ==
    {Render([ty |-> << "t" >>, subty |-> << "s" >>, suffix |-> suf,
             params |-> ps, trailer |-> << >>]) :
        suf \in {None, Some(<< "x" >>)}, ps \in SeqsUpTo(PlainParams, MaxParams)}

\* u8::to_ascii_uppercase, for writing an input in another casing.
ToAsciiUppercaseChar(c) ==
    IF Byte(c) >= 97 /\ Byte(c) <= 122 THEN Ascii[Byte(c) - 32 - 31] ELSE c

Recase(mode, s) ==
    IF mode = "upper" THEN [i \in 1..Len(s) |-> ToAsciiUppercaseChar(s[i])]
    ELSE IF mode = "lower" THEN ToAsciiLowercase(s)
    ELSE s

\* The most parameters an input of the owned MediaTypeBuf carries.
MaxBufParams == 2
\* The most canonicalize calls in a row.
MaxCanon == 2

\* The ways a parameter is written: with or without whitespace before and
\* after the ';', with a token or a quoted string as its value.
ParamForms ==
    { [before |-> 0, after |-> 1, key |-> << "a" >>, value |-> << "v" >>, quoted |-> FALSE],
      [before |-> 0, after |-> 1, key |-> << "b" >>, value |-> << "V" >>, quoted |-> FALSE],
      [before |-> 1, after |-> 0, key |-> << "B" >>, value |-> << "v" >>, quoted |-> FALSE],
      [before |-> 0, after |-> 1, key |-> << "a" >>, value |-> << >>, quoted |-> TRUE],
      [before |-> 0, after |-> 1, key |-> << "b" >>, value |-> << "v", " ", "w" >>,
       quoted |-> TRUE],
      [before |-> 0, after |-> 1, key |-> << "b" >>,
       value |-> << "v", ";", " ", "a", "=", "w" >>, quoted |-> TRUE] }

Trailers == {<< >>, << " " >>, << ";", " " >>}

BufParts ==
    [ty : {<< "T" >>}, subty : {<< "s" >>}, suffix : {None, Some(<< "X" >>)},
     params : SeqsUpTo(ParamForms, MaxBufParams), trailer : Trailers]

Malformed ==
    { << "n", "o", "s", "l", "a", "s", "h" >>,
      << "a", "/" >>,
      << "/", "b" >>,
      << "a", "/", "b", ";" >>,
      << "a", "/", "b", ";", " ", "=", "v" >>,
      << "a", "/", "b", ";", " ", "k", "=" >> }

OtherMalformed ==
    { << "a", "/", "b", " ", "x" >>,
      << "a", "/", "b", ";", " ", "k" >>,
      << "a", "/", "b", ";", " ", "k", "=", "\"", "v" >>,
      << "a", " ", "/", "b" >> }

\* parts written with its parameters in the order perm and its names and
\* values in another casing.
Variant(parts, perm, nameCase, valueCase) ==
    [ty      |-> Recase(nameCase, parts.ty),
     subty   |-> Recase(nameCase, parts.subty),
     suffix  |-> IF IsSome(parts.suffix) THEN Some(Recase(nameCase, parts.suffix[1]))
                 ELSE None,
     params  |-> [i \in 1..Len(parts.params) |->
                    [parts.params[perm[i]] EXCEPT
                        !.key = Recase(nameCase, @), !.value = Recase(valueCase, @)]],
     trailer |-> parts.trailer]

CaseModes == {"keep", "upper"}

(***************************************************************************)
(* State                                                                   *)
(***************************************************************************)
VARIABLES
    libstd,   \* the binary search the build links
    m,        \* the MediaType under mutation
    last,     \* the last call on m: its arguments, its result, m before it,
              \* and the call before it when that was a remove_param
    parts,    \* what input was written from, when it is well-formed
    input,    \* the string handed to the parsers
    parsed,   \* MediaType::parse(input), once called
    buf,      \* the MediaTypeBuf, once built
    out       \* the last call on parsed or buf and its result

vars == << libstd, m, last, parts, input, parsed, buf, out >>

bufVars == << parts, input, parsed, buf, out >>

mtVars == << m, last >>

HasKey(mt, key) == \E i \in 1..Len(mt.params) : NameEq(mt.params[i][1], key)

Matches(mt, key) == Cardinality({i \in 1..Len(mt.params) : NameEq(mt.params[i][1], key)})

NoCall == [op |-> "none", key |-> << >>, ret |-> None, matches |-> 0]

Call(op, key, value, ret) ==
    [op |-> op, key |-> key, value |-> value, ret |-> ret, pre |-> m,
     before |-> IF last.op = "remove_param"
                THEN [op |-> last.op, key |-> last.key, ret |-> last.ret,
                      matches |-> Matches(last.pre, last.key)]
                ELSE NoCall]

Constructed ==
    {New(ty, subty) : ty \in TyNames, subty \in SubtyNames}
    \cup {FromParts(<< "t" >>, << "s" >>, suf, param) :
            suf \in {None} \cup {Some(x) : x \in SuffixNames},
            param \in {None} \cup {Some(<< k, v >>) : k \in ParamKeys, v \in ParamValues}}
    \cup {Parse(s).val : s \in {i \in PlainInputs : Parse(i).ok}}

Init ==
    /\ libstd \in StdVersions
    /\ m \in Constructed
    /\ last = [op |-> "new", key |-> << >>, value |-> << >>, ret |-> None,
               pre |-> << >>, before |-> NoCall]
    /\ parts = None
    /\ input = << >>
    /\ parsed = None
    /\ buf = [st |-> "none"]
    /\ out = [op |-> "none"]

(***************************************************************************)
(* Operations on the mutable MediaType                                     *)
(***************************************************************************)
SetTy ==
    \E ty \in TyNames :
        /\ m' = [m EXCEPT !.ty = ty]
        /\ last' = Call("set_ty", ty, << >>, None)
        /\ UNCHANGED << libstd, bufVars >>

SetSubty ==
    \E subty \in SubtyNames :
        /\ m' = [m EXCEPT !.subty = subty]
        /\ last' = Call("set_subty", subty, << >>, None)
        /\ UNCHANGED << libstd, bufVars >>

SetSuffix ==
    \E suffix \in {None} \cup {Some(x) : x \in SuffixNames} :
        /\ m' = [m EXCEPT !.suffix = suffix]
        /\ last' = Call("set_suffix", << >>, << >>, None)
        /\ UNCHANGED << libstd, bufVars >>

GetParamCall ==
    \E key \in ParamKeys :
        /\ m' = m
        /\ last' = Call("get_param", key, << >>, GetParam(libstd, m, key))
        /\ UNCHANGED << libstd, bufVars >>

SetParamCall ==
    \E key \in ParamKeys, value \in ParamValues :
        /\ HasKey(m, key) \/ Len(m.params) < MaxLen
        /\ \E r \in SetParam(libstd, m, key, value) :
              /\ m' = r.m
              /\ last' = Call("set_param", key, value, r.ret)
        /\ UNCHANGED << libstd, bufVars >>

RemoveParamCall ==
    \E key \in ParamKeys :
        /\ \E r \in {RemoveParam(libstd, m, key)} :
              /\ m' = r.m
              /\ last' = Call("remove_param", key, << >>, r.ret)
        /\ UNCHANGED << libstd, bufVars >>

Next ==
    \/ SetTy
    \/ SetSubty
    \/ SetSuffix
    \/ GetParamCall
    \/ SetParamCall
    \/ RemoveParamCall

Spec == Init /\ [][Next]_vars

(***************************************************************************)
(* Operations on a parsed string and on the owned MediaTypeBuf             *)
(***************************************************************************)
InitBuf ==
    /\ libstd \in StdVersions
    /\ m = New(<< "t" >>, << "s" >>)
    /\ last = [op |-> "new", key |-> << >>, value |-> << >>, ret |-> None,
               pre |-> << >>, before |-> NoCall]
    /\ \/ /\ parts \in {Some(p) : p \in BufParts}
          /\ input = Render(parts[1])
       \/ /\ parts = None
          /\ input \in Malformed \cup OtherMalformed
    /\ parsed = None
    /\ buf = [st |-> "none"]
    /\ out = [op |-> "none"]

\* A Result as the state of the buffer: built, or the error returned.
Built(r) ==
    IF r.ok THEN [st |-> "ok", val |-> r.val, canon |-> 0]
    ELSE [st |-> "err", err |-> r.err]

\* A Result handed to unwrap(): the value, or a panic.
Unwrapped(r, canon) ==
    IF r.ok THEN [st |-> "ok", val |-> r.val, canon |-> canon]
    ELSE [st |-> "panic", err |-> r.err]

ParseCall ==
    /\ parsed = None
    /\ parsed' = Some(Parse(input))
    /\ out' = [op |-> "parse"]
    /\ UNCHANGED << libstd, mtVars, parts, input, buf >>

FromStrCall ==
    /\ buf.st = "none"
    /\ buf' = Built(FromStr(input))
    /\ out' = [op |-> "from_str"]
    /\ UNCHANGED << libstd, mtVars, parts, input, parsed >>

FromStringCall ==
    /\ buf.st = "none"
    /\ buf' = Built(FromString(input))
    /\ out' = [op |-> "from_string"]
    /\ UNCHANGED << libstd, mtVars, parts, input, parsed >>

FromCall ==
    /\ IsSome(parsed)
    /\ parsed[1].ok
    /\ buf.st = "none"
    /\ buf' = Unwrapped(From(parsed[1].val), 0)
    /\ out' = [op |-> "from", text |-> Display(parsed[1].val)]
    /\ UNCHANGED << libstd, mtVars, parts, input, parsed >>

CanonicalizeCall ==
    /\ buf.st = "ok"
    /\ buf.canon < MaxCanon
    /\ buf' = Unwrapped(Canonicalize(buf.val), buf.canon + 1)
    /\ out' = [op |-> "canonicalize", pre |-> buf.val, n |-> buf.canon + 1]
    /\ UNCHANGED << libstd, mtVars, parts, input, parsed >>

EssenceCall ==
    /\ buf.st = "ok"
    /\ out' = [op |-> "essence", ret |-> Essence(buf.val)]
    /\ UNCHANGED << libstd, mtVars, parts, input, parsed, buf >>

\* The spellings of parts: its parameters in every order, its names and its
\* values in every casing of CaseModes.
Variants(p) ==
    {Variant(p, perm, nameCase, valueCase) :
        perm \in IndexPermutations(Len(p.params)),
        nameCase \in CaseModes, valueCase \in CaseModes}

\* The results of parsing two spellings, compared.
ComparedResults(s2, m1, m2, b1, b2) ==
    [op    |-> "eq",
     other |-> s2,
     ok    |-> m2.ok /\ b2.ok,
     eq    |-> m2.ok /\ MediaTypeEq(m1.val, m2.val),
     eqBuf |-> b2.ok /\ MediaTypeBufEq(b1.val, b2.val)]

\* s1 and s2 parsed as MediaType and as MediaTypeBuf, and compared.
Compared(s1, s2) == ComparedResults(s2, Parse(s1), Parse(s2), FromStr(s1), FromStr(s2))

\* Parse the input and another spelling of it and compare.  The comparison
\* reads the two strings only, so it is taken before the other calls.
CompareCall ==
    /\ IsSome(parts)
    /\ parsed = None
    /\ buf.st = "none"
    /\ out.op = "none"
    /\ \E v \in Variants(parts[1]) : out' = Compared(input, Render(v))
    /\ UNCHANGED << libstd, mtVars, parts, input, parsed, buf >>

NextBuf ==
    \/ ParseCall
    \/ FromStrCall
    \/ FromStringCall
    \/ FromCall
    \/ CanonicalizeCall
    \/ EssenceCall
    \/ CompareCall

SpecBuf == InitBuf /\ [][NextBuf]_vars

(***************************************************************************)
(* Properties of the mutable MediaType                                     *)
(***************************************************************************)
\* C1: after construction and after every sequence of set_ty, set_subty,
\* set_suffix, set_param and remove_param calls, the parameter list is in
\* ascending order of case-folded key.
C1_ParamsSorted == IsSortedByKey(m.params)

\* set_param has just inserted a key that sorts before an existing one.
C1_Witness ==
    /\ last.op = "set_param"
    /\ last.ret = None
    /\ Len(last.pre.params) >= 1
    /\ NameCmp(last.key, last.pre.params[Len(last.pre.params)][1]) < 0

InsertedAbsentKey == last.op = "set_param" /\ ~HasKey(last.pre, last.key)

\* C2 as claimed: set_param of an absent key returns none, get_param of the
\* key then returns the value, and get_param of every other key present
\* before returns what it returned before.
C2_AsClaimed ==
    InsertedAbsentKey =>
        /\ last.ret = None
        /\ GetParam(libstd, m, last.key) = Some(last.value)
        /\ \A k2 \in ParamKeys :
              (HasKey(last.pre, k2) /\ ~NameEq(k2, last.key)) =>
                  GetParam(libstd, m, k2) = GetParam(libstd, last.pre, k2)

\* C2 amended: the same, for every other key that exactly one parameter of
\* the media type carried before the call.
C2_SetAbsentThenGet ==
    InsertedAbsentKey =>
        /\ last.ret = None
        /\ GetParam(libstd, m, last.key) = Some(last.value)
        /\ \A k2 \in ParamKeys :
              (Matches(last.pre, k2) = 1 /\ ~NameEq(k2, last.key)) =>
                  GetParam(libstd, m, k2) = GetParam(libstd, last.pre, k2)

\* An absent key was inserted before a key that was present once.
C2_Witness ==
    /\ InsertedAbsentKey
    /\ \E k2 \in ParamKeys :
          /\ Matches(last.pre, k2) = 1
          /\ NameCmp(last.key, k2) < 0

\* C3: set_param of a present key returns the value of one matching entry
\* and replaces that entry's value only: the length, every stored key,
\* every other value, ty, subty and suffix stay.
C3_ReplaceInPlace ==
    (last.op = "set_param" /\ HasKey(last.pre, last.key)) =>
        /\ \E i \in 1..Len(last.pre.params) :
              /\ NameEq(last.pre.params[i][1], last.key)
              /\ last.ret = Some(last.pre.params[i][2])
              /\ m.params = [last.pre.params EXCEPT ![i][2] = last.value]
        /\ m.ty = last.pre.ty
        /\ m.subty = last.pre.subty
        /\ m.suffix = last.pre.suffix

\* A present key was set through another casing of it, among other entries.
C3_Witness ==
    /\ last.op = "set_param"
    /\ Len(last.pre.params) >= 2
    /\ \E i \in 1..Len(last.pre.params) :
          /\ NameEq(last.pre.params[i][1], last.key)
          /\ last.pre.params[i][1] # last.key
          /\ last.pre.params[i][2] # last.value

RemovedTwice ==
    /\ last.op = "remove_param"
    /\ last.before.op = "remove_param"
    /\ last.before.key = last.key
    /\ IsSome(last.before.ret)

\* C4 as claimed: when remove_param(k) returns a value, the next
\* remove_param(k) returns none.
C4_AsClaimed == RemovedTwice => last.ret = None

\* C4 amended: the same, for a media type in which at most one parameter's
\* key equals k.
C4_SecondRemoveNone ==
    (RemovedTwice /\ last.before.matches <= 1) => last.ret = None

\* The key was removed from among other parameters, then removed again.
C4_Witness ==
    /\ RemovedTwice
    /\ last.before.matches = 1
    /\ Len(last.pre.params) >= 1

(***************************************************************************)
(* Properties of parsing and of the owned MediaTypeBuf                     *)
(***************************************************************************)
\* C5: for every string parse accepts, the Display output of the parsed
\* value is accepted by parse and parses to an equal value, and the
\* conversion to MediaTypeBuf does not fail.
C5_RoundTrip ==
    out.op = "from" =>
        /\ buf.st = "ok"
        /\ Parse(out.text).ok
        /\ MediaTypeEq(Parse(out.text).val, parsed[1].val)

\* C6: two spellings of the same media type with pairwise distinct keys,
\* differing in letter case and in the order of the parameters, parse to
\* equal MediaType values and to equal MediaTypeBuf values.
DistinctKeys(ps) ==
    \A i, j \in 1..Len(ps) : NameEq(ps[i].key, ps[j].key) => i = j

C6_CaseAndOrder ==
    (out.op = "eq" /\ DistinctKeys(parts[1].params)) =>
        /\ out.ok
        /\ out.eq
        /\ out.eqBuf

\* Two parameters were written in the other order and in another casing.
C6_Witness ==
    /\ out.op = "eq"
    /\ DistinctKeys(parts[1].params)
    /\ Len(parts[1].params) >= 2
    /\ Parse(out.other).ok
    /\ Parse(out.other).val.params # Parse(input).val.params
    /\ \E i \in 1..Len(input) :
          i <= Len(out.other) /\ input[i] = ";" /\ out.other[i] # ";"

\* C7: canonicalizing a canonicalized buffer succeeds and gives an equal
\* buffer with the same text.
C7_CanonIdempotent ==
    out.op = "canonicalize" =>
        /\ buf.st = "ok"
        /\ (out.n = 2 =>
              /\ MediaTypeBufEq(buf.val, out.pre)
              /\ buf.val.data = out.pre.data)

\* C8: the string canonicalize rebuilds from a successfully built buffer is
\* accepted by the parser, so canonicalize does not panic.
C8_CanonNeverFails ==
    (out.op = "canonicalize" /\ out.n = 1) => buf.st # "panic"

\* C9: essence is ty "/" subty, followed by "+" suffix when there is one.
C9_Essence ==
    out.op = "essence" =>
        out.ret = BufTy(buf.val) \o << "/" >> \o BufSubty(buf.val)
                  \o (IF IsSome(BufSuffix(buf.val))
                      THEN << "+" >> \o BufSuffix(buf.val)[1] ELSE << >>)

ErrorKinds ==
    {"MissingSlash", "InvalidTypeName", "InvalidSubtypeName", "InvalidParams",
     "MissingEqual", "InvalidParamKey", "InvalidParamValue"}

\* C10: "noslash", "a/", "/b", "a/b;", "a/b; =v" and "a/b; k=" are rejected
\* by parse, from_str and from_string, each with one error kind.
C10_MalformedRejected ==
    input \in Malformed =>
        /\ IsSome(parsed) => ~parsed[1].ok /\ parsed[1].err \in ErrorKinds
        /\ buf.st # "ok"
        /\ (IsSome(parsed) /\ buf.st = "err") => buf.err = parsed[1].err

\* A malformed input has been through parse and from_str or from_string.
C10_Witness ==
    /\ input \in Malformed
    /\ IsSome(parsed)
    /\ buf.st = "err"

\* The keys looked up in both representations: the keys of the inputs in
\* either casing, and one that no input carries.
LookupKeys == ParamKeys \cup {<< "A" >>, << "c" >>}

\* C11: MediaType::parse(s) and MediaTypeBuf::from_str(s) succeed on the same
\* strings and fail with the same error; when they succeed they give the
\* same ty, subty and suffix text, the same (key, value) pairs in the same
\* order, the same get_param result for every key, and the MediaTypeBuf
\* equals the MediaType under the cross-type equality.
C11_RepresentationsAgree ==
    (out.op = "from_str" /\ IsSome(parsed)) =>
        /\ parsed[1].ok <=> buf.st = "ok"
        /\ ~parsed[1].ok => (buf.st = "err" /\ buf.err = parsed[1].err)
        /\ parsed[1].ok =>
              /\ BufTy(buf.val) = parsed[1].val.ty
              /\ BufSubty(buf.val) = parsed[1].val.subty
              /\ BufSuffix(buf.val) = parsed[1].val.suffix
              /\ BufParams(buf.val) = parsed[1].val.params
              /\ \A k \in LookupKeys :
                    BufGetParam(libstd, buf.val, k) = GetParam(libstd, parsed[1].val, k)
              /\ BufEqMediaType(buf.val, parsed[1].val)

\* One string with a suffix, two parameters, one of them quoted, and
\* whitespace to drop has been through parse and then from_str, and a
\* lookup finds a value in it.
C11_Witness ==
    /\ out.op = "from_str"
    /\ IsSome(parsed)
    /\ parsed[1].ok
    /\ buf.st = "ok"
    /\ IsSome(parsed[1].val.suffix)
    /\ Len(parsed[1].val.params) = 2
    /\ Len(buf.val.data) < Len(input)
    /\ \E i \in 1..2 : input[buf.val.indices.params[i][3]] = "\""
    /\ \E k \in LookupKeys : IsSome(GetParam(libstd, parsed[1].val, k))

====
